---- MODULE Spec2Model ----
(***************************************************************************)
(* Avalara Excise tax plugin of saleor (saleor/plugins/avatax/excise).     *)
(* The model covers the checkout-line pricing hook                         *)
(* AvataxExcisePlugin.calculate_checkout_line_total, the request builder   *)
(* (generate_request_data_from_checkout and what it calls) and the two     *)
(* HTTP client functions api_post_request / api_get_request.               *)
(*                                                                         *)
(* Python values: None and "absent" are the empty tuple <<>>, a present    *)
(* optional value x is <<x>>; objects and dicts are records; a call either *)
(* returns a value or raises, [kind |-> "returned", value |-> v] or        *)
(* [kind |-> "raised", exc |-> name]. Decimal amounts are exact integers   *)
(* (cents).                                                                *)
(***************************************************************************)
EXTENDS Integers, Sequences, FiniteSets, TLC

VARIABLES
    plugin,     \* the AvataxExcisePlugin instance: self.config and self.active
    site,       \* Site.objects.get_current().settings (ambient, read only)
    checkout,   \* the caller's checkout
    pc,         \* the caller: "idle" or "done" (a call has returned or raised)
    op,         \* the operation the caller invoked last
    args,       \* its arguments, with what the network would answer
    ret,        \* its outcome
    trace,      \* the functions the operation called, in call order
    cpc,        \* concurrent invocations: position of each
    cargs,      \* concurrent invocations: arguments of each
    clocal,     \* concurrent invocations: local variables of each
    cret,       \* concurrent invocations: outcome of each
    heap,       \* concurrent invocations: the list objects `data` is bound to
    snapshot    \* concurrent invocations: plugin, site, checkout at the start

seqvars == <<pc, op, args, ret, trace>>
concvars == <<cpc, cargs, clocal, cret, heap, snapshot>>
vars == <<plugin, site, checkout, pc, op, args, ret, trace,
          cpc, cargs, clocal, cret, heap, snapshot>>

----------------------------------------------------------------------------
(* Bounds and input sets *)

MaxRespLines == 2

None == <<>>
Optional(S) == {None} \cup {<<x>> : x \in S}
Return(v) == [kind |-> "returned", value |-> v]
Raise(e) == [kind |-> "raised", exc |-> e]

ShipUS == [street_address_1 |-> "1 Ship St", street_address_2 |-> "", city |-> "NEW YORK",
           country_area |-> "NY", country |-> "US", postal_code |-> "10001"]
ShipPL == [street_address_1 |-> "2 Ship St", street_address_2 |-> "", city |-> "WROCLAW",
           country_area |-> "", country |-> "PL", postal_code |-> "53-601"]
BillUS == [street_address_1 |-> "3 Bill St", street_address_2 |-> "", city |-> "DALLAS",
           country_area |-> "TX", country |-> "US", postal_code |-> "75001"]
CompanyAddress == [street_address_1 |-> "9 Main St", street_address_2 |-> "", city |-> "RENO",
                   country_area |-> "NV", country |-> "US", postal_code |-> "89501"]

Money(amount, currency) == [amount |-> amount, currency |-> currency]
TaxedMoney(net, gross) == [net |-> net, gross |-> gross]
TaxedMoneyRange(start, stop) == [start |-> start, stop |-> stop]
isinstance(v, cls) ==
    CASE cls = "TaxedMoney" -> DOMAIN v = {"net", "gross"}
      [] cls = "TaxedMoneyRange" -> DOMAIN v = {"start", "stop"}

\* the values upstream pricing hands in as previous_value
PreviousValues ==
    { TaxedMoney(Money(1000, "USD"), Money(1000, "USD")),
      TaxedMoney(Money(1000, "USD"), Money(1230, "USD")),
      TaxedMoneyRange(TaxedMoney(Money(500, "USD"), Money(615, "USD")),
                      TaxedMoney(Money(1000, "USD"), Money(1230, "USD"))) }

\* plugin.AvataxConfiguration as built by AvataxExcisePlugin.__init__
PluginConfigs ==
    [username : Optional({"user"}), password : Optional({"secret"}),
     use_sandbox : {TRUE}, company_id : {"1234"}]
\* excise.AvataxConfiguration, the class the builder and the client are written for
ExciseConfigs ==
    [username_or_account : {"user"}, password_or_license : {"secret"},
     use_sandbox : {TRUE}, company_name : {"DEFAULT"}, autocommit : {FALSE}]

Sites ==
    { [company_address |-> None, include_taxes_in_prices |-> FALSE],
      [company_address |-> <<CompanyAddress>>, include_taxes_in_prices |-> TRUE] }

CheckoutLineOf(id, sku, charge, stocks) ==
    [id |-> id, quantity |-> id,
     variant |-> [sku |-> sku, product |-> [charge_taxes |-> charge], stocks |-> stocks,
                  channel_listing |->
                      [price |-> [amount |-> 1000],
                       cost_price |-> IF id = 1 THEN None ELSE <<[amount |-> 600]>>]]]

CheckoutLineSeqs ==
    { <<CheckoutLineOf(1, "ABC", c1, s1), CheckoutLineOf(2, "XYZ", c2, {"US"})>> :
        c1 \in BOOLEAN, c2 \in BOOLEAN, s1 \in {{}, {"US"}} }

Checkouts ==
    [token : {"tok-1"}, email : {"c@example.com"}, currency : {"USD"},
     shipping_address : Optional({ShipUS, ShipPL}),
     billing_address : Optional({BillUS}),
     lines : CheckoutLineSeqs]

\* lines of a transaction response, as the service reports them
ResponseLines ==
    { [itemCode |-> "ABC", lineAmount |-> 1000, tax |-> 100],
      [itemCode |-> "XYZ", lineAmount |-> 2000, tax |-> 250] }
SeqsUpTo(S, n) == UNION { [1..k -> S] : k \in 0..n }

\* JSON documents the service can answer with
TransactionDocs ==
    { [keys |-> {"currencyCode", "lines"}, currencyCode |-> c, lines |-> ls] :
        c \in {"USD", "EUR"}, ls \in SeqsUpTo(ResponseLines, MaxRespLines) }
ErrorDoc == [keys |-> {"error"}, error |-> "server error"]
EmptyDoc == [keys |-> {}]
PingDocs == { [keys |-> {"authenticated"}, authenticated |-> b] : b \in BOOLEAN }

\* what the network does with a request
TransportFailures == {"ConnectionError", "Timeout"}
NetFail(k) == [kind |-> k]
NetBody(d) == [kind |-> "json", doc |-> d]
NetUndecodable == [kind |-> "undecodable"]
PostOutcomes ==
    { NetFail(k) : k \in TransportFailures } \cup {NetUndecodable}
    \cup { NetBody(d) : d \in TransactionDocs \cup {ErrorDoc, EmptyDoc} }
GetOutcomes ==
    { NetFail(k) : k \in TransportFailures } \cup {NetUndecodable}
    \cup { NetBody(d) : d \in PingDocs \cup {ErrorDoc} }

----------------------------------------------------------------------------
(* plugin.py *)

truthy(o) == o # None

Plugins == [config : PluginConfigs, active : BOOLEAN]

\* AvataxExcisePlugin._skip_plugin. Its only call site, the first statement of
\* calculate_checkout_line_total, is commented out (plugin.py 125-127).
_skip_plugin(self, previous_value) ==
    IF ~(truthy(self.config.username) /\ truthy(self.config.password)) THEN TRUE
    ELSE IF ~self.active THEN TRUE
    ELSE IF isinstance(previous_value, "TaxedMoneyRange") THEN
        LET start == previous_value.start
            stop == previous_value.stop
        IN  start.net # start.gross /\ stop.net # stop.gross
    ELSE IF isinstance(previous_value, "TaxedMoney") THEN
        previous_value.net # previous_value.gross
    ELSE FALSE

\* saleor.plugins.avatax._validate_checkout: the checkout has a destination
\* address (shipping, else billing) and the line being priced is there.
_validate_checkout(chk, lines) ==
    /\ lines # <<>>
    /\ truthy(IF truthy(chk.shipping_address) THEN chk.shipping_address
              ELSE chk.billing_address)

----------------------------------------------------------------------------
(* excise/__init__.py *)

\* the names bound at module level in excise/__init__.py
module_globals ==
    {"json", "logging", "dataclass", "date", "Decimal", "TYPE_CHECKING", "Any", "Dict",
     "Iterable", "List", "Optional", "Union", "urljoin", "opentracing", "requests",
     "settings", "Site", "cache", "HTTPBasicAuth", "base_calculations", "TaxError",
     "TransactionType", "logger", "AvataxConfiguration", "get_api_url",
     "api_post_request", "api_get_request", "generate_request_data", "TransactionLine",
     "get_checkout_lines_data", "generate_request_data_from_checkout",
     "get_checkout_tax_data"}

hasattr(obj, name) == name \in DOMAIN obj

get_api_url(use_sandbox) ==
    IF use_sandbox THEN "https://excisesbx.avalara.com/api/v1/"
    ELSE "https://excise.avalara.net/api/v1/"

\* api_post_request; net is what the network does with the request. The try
\* block catches RequestException and JSONDecodeError only.
api_post_request(url, data, cfg, net) ==
    IF ~(hasattr(cfg, "username_or_account") /\ hasattr(cfg, "password_or_license"))
    THEN Raise("AttributeError: 'AvataxConfiguration' object has no attribute 'username_or_account'")
    ELSE IF "TIMEOUT" \notin module_globals
    THEN Raise("NameError: name 'TIMEOUT' is not defined")
    ELSE IF net.kind \in TransportFailures THEN Return(EmptyDoc)
    ELSE IF net.kind = "undecodable" THEN Return(EmptyDoc)
    ELSE Return(net.doc)

\* api_get_request
api_get_request(url, username_or_account, password_or_license, net) ==
    IF "TIMEOUT" \notin module_globals
    THEN Raise("NameError: name 'TIMEOUT' is not defined")
    ELSE IF net.kind \in TransportFailures THEN Return(EmptyDoc)
    ELSE IF net.kind = "undecodable" THEN Return(EmptyDoc)
    ELSE Return(net.doc)

\* Address.as_data() and dict.get on it; the empty dict is None
dict_get(d, key) == IF d = None THEN None ELSE <<d[1][key]>>
address_fields(d) ==
    [line1 |-> dict_get(d, "street_address_1"), line2 |-> dict_get(d, "street_address_2"),
     city |-> dict_get(d, "city"), region |-> dict_get(d, "country_area"),
     country |-> dict_get(d, "country"), postalCode |-> dict_get(d, "postal_code")]

\* generate_request_data
generate_request_data(transaction_type, lines, transaction_token, address, customer_email, cfg, currency, st) ==
    LET company_address == IF truthy(st.company_address) THEN st.company_address ELSE None
    IN  IF ~hasattr(cfg, "company_name")
        THEN Raise("AttributeError: 'AvataxConfiguration' object has no attribute 'company_name'")
        ELSE IF ~hasattr(cfg, "autocommit")
        THEN Raise("AttributeError: 'AvataxConfiguration' object has no attribute 'autocommit'")
        ELSE Return([createTransactionModel |->
                [companyCode |-> cfg.company_name,
                 type |-> transaction_type,
                 lines |-> lines,
                 code |-> transaction_token,
                 date |-> "date.today()",
                 customerCode |-> 0,
                 addresses |-> [shipFrom |-> address_fields(company_address),
                                shipTo |-> address_fields(address)],
                 commit |-> cfg.autocommit,
                 currencyCode |-> currency,
                 email |-> customer_email]])

\* Country.alpha3
alpha3(country) == CASE country = "US" -> "USA" [] country = "PL" -> "POL"

\* line.variant.stocks.for_country(country).first()
for_country_first(stocks, country) ==
    IF country \in stocks THEN <<[warehouse |-> "WH", country |-> country]>> ELSE None

\* the TransactionLine appended for one checkout line (a shipping address is there)
TransactionLine(chk, line, tax_included) ==
    LET channel_listing == line.variant.channel_listing
    IN  [InvoiceLine |-> line.id,
         ProductCode |-> line.variant.sku,
         UnitPrice |-> channel_listing.price.amount,
         BilledUnits |-> line.quantity,
         AlternateUnitPrice |-> IF truthy(channel_listing.cost_price)
                                THEN <<channel_listing.cost_price[1].amount>> ELSE None,
         TaxIncluded |-> tax_included,
         DestinationCountryCode |-> alpha3(chk.shipping_address[1].country),
         DestinationJurisdiction |-> chk.shipping_address[1].country_area,
         DestinationAddress1 |-> chk.shipping_address[1].street_address_1,
         DestinationAddress2 |-> chk.shipping_address[1].street_address_2]

\* one iteration of the for loop of get_checkout_lines_data: the list after it,
\* or the exception of checkout.shipping_address.country on a missing address
loop_body(chk, line, tax_included, data) ==
    IF chk.shipping_address = None
    THEN Raise("AttributeError: 'NoneType' object has no attribute 'country'")
    ELSE LET stock == for_country_first(line.variant.stocks,
                                        chk.shipping_address[1].country)
         IN  Return(Append(data, TransactionLine(chk, line, tax_included)))

\* checkout.lines...filter(variant__product__charge_taxes=True)
taxable_lines(chk) == SelectSeq(chk.lines, LAMBDA l : l.variant.product.charge_taxes)

RECURSIVE lines_loop(_, _, _, _)
lines_loop(chk, lines, tax_included, data) ==
    IF lines = <<>> THEN Return(data)
    ELSE LET r == loop_body(chk, Head(lines), tax_included, data)
         IN  IF r.kind = "raised" THEN r
             ELSE lines_loop(chk, Tail(lines), tax_included, r.value)

\* get_checkout_lines_data
get_checkout_lines_data(chk, st) ==
    lines_loop(chk, taxable_lines(chk), st.include_taxes_in_prices, <<>>)

\* generate_request_data_from_checkout
generate_request_data_from_checkout(chk, cfg, st) ==
    LET address == IF truthy(chk.shipping_address) THEN chk.shipping_address
                   ELSE chk.billing_address
        lines == get_checkout_lines_data(chk, st)
    IN  IF lines.kind = "raised"
        THEN [ret |-> lines, calls |-> <<"get_checkout_lines_data">>]
        ELSE [ret |-> generate_request_data("TransactionType.ORDER", lines.value,
                                            chk.token, address, chk.email, cfg,
                                            chk.currency, st),
              calls |-> <<"get_checkout_lines_data", "generate_request_data">>]

\* get_checkout_tax_data: builds the request and ends; nothing is returned
get_checkout_tax_data(chk, discounts, cfg, st) ==
    LET data == generate_request_data_from_checkout(chk, cfg, st)
        calls == <<"generate_request_data_from_checkout">> \o data.calls
    IN  IF data.ret.kind = "raised" THEN [ret |-> data.ret, calls |-> calls]
        ELSE [ret |-> Return(None), calls |-> calls]

----------------------------------------------------------------------------
(* plugin.py: the pricing hook *)

RECURSIVE first_match(_, _)
first_match(lines, sku) ==
    IF lines = <<>> THEN None
    ELSE IF Head(lines).itemCode = sku THEN <<Head(lines)>>
    ELSE first_match(Tail(lines), sku)

\* the taxable flag read as always set
charge_taxes_always(checkout_line) == TRUE

\* checkout_line.variant.product.charge_taxes
charge_taxes(checkout_line) == checkout_line.variant.product.charge_taxes

\* lines 142-151: the loop over the response lines
reconcile(taxes_data, variant, base_total) ==
    LET currency == IF "currencyCode" \in taxes_data.keys
                    THEN taxes_data.currencyCode ELSE "None"
        lines == IF "lines" \in taxes_data.keys THEN taxes_data.lines ELSE <<>>
        m == first_match(lines, variant.sku)
    IN  IF m = None THEN base_total
        ELSE LET tax == m[1].tax
                 line_net == m[1].lineAmount
             IN  TaxedMoney(Money(line_net, currency), Money(line_net + tax, currency))

\* AvataxExcisePlugin.calculate_checkout_line_total
calculate_checkout_line_total(self, chk, checkout_line, variant, discounts, previous_value, st) ==
    LET base_total == previous_value
    IN  IF ~charge_taxes(checkout_line)
        THEN [ret |-> Return(base_total), calls |-> <<>>]
        ELSE IF ~_validate_checkout(chk, <<checkout_line>>)
        THEN [ret |-> Return(base_total), calls |-> <<"_validate_checkout">>]
        ELSE LET t == get_checkout_tax_data(chk, discounts, self.config, st)
                 calls == <<"_validate_checkout", "get_checkout_tax_data">> \o t.calls
             IN  IF t.ret.kind = "raised" THEN [ret |-> t.ret, calls |-> calls]
                 ELSE LET taxes_data == t.ret.value
                      IN  IF taxes_data = None \/ taxes_data[1].keys = {}
                             \/ "error" \in taxes_data[1].keys
                          THEN [ret |-> Return(base_total), calls |-> calls]
                          ELSE [ret |-> Return(reconcile(taxes_data[1], variant, base_total)),
                                calls |-> calls]

----------------------------------------------------------------------------
(* The caller: one operation at a time *)

Idle == [kind |-> "idle"]

SeqInit ==
    /\ pc = "idle" /\ op = "" /\ args = Idle /\ ret = Idle /\ trace = <<>>
ConcIdle ==
    /\ cpc = <<>> /\ cargs = <<>> /\ clocal = <<>> /\ cret = <<>>
    /\ heap = <<>> /\ snapshot = <<>>

Init ==
    /\ plugin \in Plugins
    /\ site \in Sites
    /\ checkout \in Checkouts
    /\ SeqInit
    /\ ConcIdle

Done(name, a, r, calls) ==
    /\ pc' = "done" /\ op' = name /\ args' = a /\ ret' = r /\ trace' = calls
    /\ UNCHANGED <<plugin, site, checkout, concvars>>

\* the pricing pipeline calls the hook for one line of the checkout
Calculate ==
    /\ pc = "idle"
    /\ \E i \in DOMAIN checkout.lines, previous_value \in PreviousValues,
          service \in PostOutcomes :
        LET line == checkout.lines[i]
            r == calculate_checkout_line_total(plugin, checkout, line, line.variant,
                                               <<>>, previous_value, site)
        IN  Done("calculate_checkout_line_total",
                 [checkout_line |-> line, previous_value |-> previous_value,
                  service |-> service],
                 r.ret, r.calls)

\* the line extractor called on the checkout
Extract ==
    /\ pc = "idle"
    /\ Done("get_checkout_lines_data", Idle, get_checkout_lines_data(checkout, site),
            <<>>)

\* the request builder called on the checkout
Build ==
    /\ pc = "idle"
    /\ \E cfg \in ExciseConfigs \cup {plugin.config} :
        LET r == generate_request_data_from_checkout(checkout, cfg, site)
        IN  Done("generate_request_data_from_checkout", [config |-> cfg], r.ret, r.calls)

\* submit
Post ==
    /\ pc = "idle"
    /\ \E cfg \in ExciseConfigs \cup {plugin.config}, net \in PostOutcomes,
          sandbox \in BOOLEAN :
        LET url == get_api_url(sandbox)
        IN  Done("api_post_request", [url |-> url, config |-> cfg, service |-> net],
                 api_post_request(url, EmptyDoc, cfg, net), <<>>)

\* ping
Get ==
    /\ pc = "idle"
    /\ \E cfg \in ExciseConfigs, net \in GetOutcomes, sandbox \in BOOLEAN :
        LET url == get_api_url(sandbox)
        IN  Done("api_get_request", [url |-> url, config |-> cfg, service |-> net],
                 api_get_request(url, cfg.username_or_account, cfg.password_or_license,
                                 net), <<>>)

\* the caller takes the outcome
Reset ==
    /\ pc = "done"
    /\ pc' = "idle" /\ op' = "" /\ args' = Idle /\ ret' = Idle /\ trace' = <<>>
    /\ UNCHANGED <<plugin, site, checkout, concvars>>

Next == Calculate \/ Extract \/ Build \/ Post \/ Get \/ Reset

Spec == Init /\ [][Next]_vars

----------------------------------------------------------------------------
(* Concurrent invocations of the pricing hook on one checkout: each runs   *)
(* calculate_checkout_line_total statement by statement, interleaved with  *)
(* the other.                                                              *)

Invocations == {1, 2}

\* one list object shared by every call (a module-level or default-argument list)
data_cell_shared(i) == 1

\* `data = []` in get_checkout_lines_data: the list object the call works on
data_cell(i) == i

\* what is left of calculate_checkout_line_total once get_checkout_lines_data
\* has returned `lines`: generate_request_data, the return of
\* get_checkout_tax_data and lines 139-151
after_lines(self, chk, checkout_line, lines, previous_value, st) ==
    LET address == IF truthy(chk.shipping_address) THEN chk.shipping_address
                   ELSE chk.billing_address
        data == generate_request_data("TransactionType.ORDER", lines, chk.token, address,
                                      chk.email, self.config, chk.currency, st)
    IN  IF data.kind = "raised" THEN data ELSE Return(previous_value)

ConcInit ==
    /\ plugin \in {p \in Plugins : p.active}
    /\ site \in Sites
    /\ checkout \in Checkouts
    /\ SeqInit
    /\ cpc = [i \in Invocations |-> "idle"]
    /\ cargs = [i \in Invocations |-> Idle]
    /\ clocal = [i \in Invocations |-> Idle]
    /\ cret = [i \in Invocations |-> Idle]
    /\ heap = [i \in Invocations |-> <<>>]
    /\ snapshot = <<plugin, site, checkout>>

ConcFrame == UNCHANGED <<plugin, site, checkout, seqvars, snapshot>>

Finish(i, r) ==
    /\ cpc' = [cpc EXCEPT ![i] = "done"]
    /\ cret' = [cret EXCEPT ![i] = r]

\* the hook is entered for a line of the checkout
CInvoke(i) ==
    /\ cpc[i] = "idle"
    /\ \E n \in DOMAIN checkout.lines, previous_value \in PreviousValues :
        cargs' = [cargs EXCEPT ![i] = [checkout_line |-> checkout.lines[n],
                                       previous_value |-> previous_value]]
    /\ cpc' = [cpc EXCEPT ![i] = "L130"]
    /\ UNCHANGED <<clocal, cret, heap>>
    /\ ConcFrame

\* plugin.py 129-132
CChargeTaxes(i) ==
    /\ cpc[i] = "L130"
    /\ IF ~charge_taxes(cargs[i].checkout_line)
       THEN Finish(i, Return(cargs[i].previous_value))
       ELSE cpc' = [cpc EXCEPT ![i] = "L134"] /\ UNCHANGED cret
    /\ UNCHANGED <<cargs, clocal, heap>>
    /\ ConcFrame

\* plugin.py 134-136
CValidate(i) ==
    /\ cpc[i] = "L134"
    /\ IF ~_validate_checkout(checkout, <<cargs[i].checkout_line>>)
       THEN Finish(i, Return(cargs[i].previous_value))
       ELSE cpc' = [cpc EXCEPT ![i] = "L189"] /\ UNCHANGED cret
    /\ UNCHANGED <<cargs, clocal, heap>>
    /\ ConcFrame

\* __init__.py 189-196: the list is created, the lines are queried
CLinesEnter(i) ==
    /\ cpc[i] = "L189"
    /\ clocal' = [clocal EXCEPT ![i] =
                    [data |-> data_cell(i), lines |-> taxable_lines(checkout),
                     tax_included |-> site.include_taxes_in_prices]]
    /\ heap' = [heap EXCEPT ![data_cell(i)] = <<>>]
    /\ cpc' = [cpc EXCEPT ![i] = "L198"]
    /\ UNCHANGED <<cargs, cret>>
    /\ ConcFrame

\* __init__.py 198-218: one iteration of the loop
CLoop(i) ==
    /\ cpc[i] = "L198"
    /\ clocal[i].lines # <<>>
    /\ LET r == loop_body(checkout, Head(clocal[i].lines), clocal[i].tax_included,
                          heap[clocal[i].data])
       IN  IF r.kind = "raised"
           THEN Finish(i, r) /\ UNCHANGED <<clocal, heap>>
           ELSE /\ heap' = [heap EXCEPT ![clocal[i].data] = r.value]
                /\ clocal' = [clocal EXCEPT ![i].lines = Tail(@)]
                /\ UNCHANGED <<cpc, cret>>
    /\ UNCHANGED cargs
    /\ ConcFrame

\* __init__.py 244, 258-268, 275 and plugin.py 139-151: the list is returned,
\* the request is generated, and the hook ends
CFinish(i) ==
    /\ cpc[i] = "L198"
    /\ clocal[i].lines = <<>>
    /\ Finish(i, after_lines(plugin, checkout, cargs[i].checkout_line,
                             heap[clocal[i].data], cargs[i].previous_value, site))
    /\ UNCHANGED <<cargs, clocal, heap>>
    /\ ConcFrame

ConcNext ==
    \E i \in Invocations :
        \/ CInvoke(i)
        \/ CChargeTaxes(i)
        \/ CValidate(i)
        \/ CLinesEnter(i)
        \/ CLoop(i)
        \/ CFinish(i)

SpecConc == ConcInit /\ [][ConcNext]_vars

----------------------------------------------------------------------------
(* Properties *)

Calculated == pc = "done" /\ op = "calculate_checkout_line_total"
Extracted == pc = "done" /\ op = "get_checkout_lines_data"
PricedLineTaxable == args.checkout_line.variant.product.charge_taxes
\* the line is taxable and the checkout has a shipping address
LineReady == PricedLineTaxable /\ truthy(checkout.shipping_address)
\* and the plugin is configured, active, and no tax was computed upstream
QuoteDue == LineReady /\ ~_skip_plugin(plugin, args.previous_value)
ServiceAnswersTransaction ==
    args.service.kind = "json" /\ "lines" \in args.service.doc.keys
ServiceFails ==
    \/ args.service.kind \in TransportFailures \cup {"undecodable"}
    \/ args.service.kind = "json" /\ "error" \in args.service.doc.keys
ServiceMatch == first_match(args.service.doc.lines, args.checkout_line.variant.sku)
RequestCalls ==
    {"get_checkout_tax_data", "generate_request_data_from_checkout",
     "get_checkout_lines_data", "generate_request_data", "api_post_request"}
NoRequestCalls == \A k \in DOMAIN trace : trace[k] \notin RequestCalls
Destination ==
    IF truthy(checkout.shipping_address) THEN checkout.shipping_address
    ELSE checkout.billing_address

\* C1: a taxable line of a checkout with a shipping address, the plugin
\* configured and active, no tax computed upstream, the service answering
\* (in the checkout's currency) with a line for the SKU: the hook returns
\* net = lineAmount and gross = lineAmount + tax of that response line.
C1_QuoteApplied ==
    (/\ Calculated /\ QuoteDue /\ ServiceAnswersTransaction
     /\ args.service.doc.currencyCode = checkout.currency
     /\ ServiceMatch # None)
    => /\ ret.kind = "returned"
       /\ isinstance(ret.value, "TaxedMoney")
       /\ ret.value.net.amount = ServiceMatch[1].lineAmount
       /\ ret.value.gross.amount = ServiceMatch[1].lineAmount + ServiceMatch[1].tax

\* C2: a quote is due and the service answers in a currency other than the
\* checkout's: the hook returns the pre-quote value, for every line, matching
\* or not.
C2_MismatchFallsBack ==
    (/\ Calculated /\ QuoteDue /\ ServiceAnswersTransaction
     /\ args.service.doc.currencyCode # checkout.currency)
    => ret = Return(args.previous_value)

\* C3: a quote would be due but the skip-check holds (credentials missing, plugin inactive, or the
\* previous value already taxed): the hook returns the pre-quote value at
\* once, having called nothing (no validation, no request building, no post).
C3_SkipImmediately ==
    (Calculated /\ LineReady /\ _skip_plugin(plugin, args.previous_value))
    => (ret = Return(args.previous_value) /\ trace = <<>>)

\* C4: a quote is due and the service fails (connection error, timeout, undecodable body, error
\* response): the hook returns the pre-quote value and does not raise.
C4_FailOpen ==
    (Calculated /\ QuoteDue /\ ServiceFails) => ret = Return(args.previous_value)

\* C5: a quote is due and the service answers with a transaction holding no line for the SKU
\* being priced: the hook returns exactly the pre-quote value.
C5_FallbackLaw ==
    (Calculated /\ QuoteDue /\ ServiceAnswersTransaction /\ ServiceMatch = None)
    => ret = Return(args.previous_value)

\* C6: the product of the line being priced is not taxable: the hook returns
\* the pre-quote value and has neither built nor sent a request.
C6_NonTaxableNoRequest ==
    (Calculated /\ ~PricedLineTaxable)
    => (ret = Return(args.previous_value) /\ NoRequestCalls)

\* C6 witness: a non-taxable line of a checkout that is otherwise ready for a
\* quote (destination address, another line taxable, plugin configured) was
\* priced and came back unchanged with no call made.
C6_Witness ==
    /\ Calculated /\ ~PricedLineTaxable
    /\ truthy(checkout.shipping_address)
    /\ taxable_lines(checkout) # <<>>
    /\ ~_skip_plugin(plugin, args.previous_value)
    /\ ret = Return(args.previous_value) /\ trace = <<>>

\* C7: submit and ping return the empty result, and do not raise, on a
\* connection error, a timeout and an undecodable body.
C7_ClientNeverRaises ==
    (/\ pc = "done" /\ op \in {"api_post_request", "api_get_request"}
     /\ args.config \in ExciseConfigs
     /\ args.service.kind \in TransportFailures \cup {"undecodable"})
    => ret = Return(EmptyDoc)

\* C8: a checkout with a shipping or a billing address: extraction does not
\* fail, yields a line per taxable checkout line, and each line's destination
\* is the shipping address if there is one, else the billing address.
C8_Destination ==
    (Extracted /\ truthy(Destination))
    => /\ ret.kind = "returned"
       /\ Len(ret.value) = Len(taxable_lines(checkout))
       /\ \A k \in DOMAIN ret.value :
            /\ ret.value[k].DestinationCountryCode = alpha3(Destination[1].country)
            /\ ret.value[k].DestinationJurisdiction = Destination[1].country_area
            /\ ret.value[k].DestinationAddress1 = Destination[1].street_address_1
            /\ ret.value[k].DestinationAddress2 = Destination[1].street_address_2

\* C9: every transaction line the extractor yields is for a checkout line that
\* has a stock record for the destination country.
C9_OnlyResolvedOrigins ==
    (Extracted /\ ret.kind = "returned")
    => \A k \in DOMAIN ret.value :
         \E n \in DOMAIN checkout.lines :
            /\ checkout.lines[n].id = ret.value[k].InvoiceLine
            /\ truthy(for_country_first(checkout.lines[n].variant.stocks,
                                        Destination[1].country))

\* the list an invocation running alone holds after the lines it has handled
AloneData(i) ==
    LET all == taxable_lines(checkout)
        handled == SubSeq(all, 1, Len(all) - Len(clocal[i].lines))
    IN  lines_loop(checkout, handled, site.include_taxes_in_prices, <<>>)

\* C10: under every interleaving of two invocations on one checkout, each
\* ends with the outcome it has when run alone, each works on a list holding
\* only what it appended itself, and plugin, site settings and checkout stay
\* as they were at the start.
C10_Independent ==
    /\ <<plugin, site, checkout>> = snapshot
    /\ \A i \in Invocations :
        /\ cpc[i] = "done" =>
             cret[i] = calculate_checkout_line_total(
                           plugin, checkout, cargs[i].checkout_line,
                           cargs[i].checkout_line.variant, <<>>,
                           cargs[i].previous_value, site).ret
        /\ cpc[i] = "L198" => Return(heap[clocal[i].data]) = AloneData(i)

\* C10 witness: invocation 1 went through the line loop and ended, while
\* invocation 2, pricing another line, is inside its own loop with lines
\* appended.
C10_Witness ==
    /\ cpc[1] = "done" /\ clocal[1] # Idle /\ heap[clocal[1].data] # <<>>
    /\ cpc[2] = "L198" /\ heap[clocal[2].data] # <<>>
    /\ cargs[1].checkout_line # cargs[2].checkout_line
    /\ cret[1] = calculate_checkout_line_total(
                     plugin, checkout, cargs[1].checkout_line,
                     cargs[1].checkout_line.variant, <<>>,
                     cargs[1].previous_value, site).ret

====
